---------------------------- MODULE Spec2Model ----------------------------
(***************************************************************************)
(* A model of math::BinPackingSpace (src/geometry/bin_packing_space.hpp),  *)
(* the rectangular bin-packing tree.  A space owns one root Node; insert   *)
(* searches the tree depth-first, splits free leaves that are larger than  *)
(* the request and marks the leaf of exactly the requested size as taken.  *)
(*                                                                         *)
(* The tree is a function from paths to nodes.  A path is the sequence of  *)
(* childs[] indices (0 or 1) leading from the root to the node; the root   *)
(* is <<>>.  childs[i] of the node at p is non-null iff Append(p, i) is in *)
(* the domain of the tree.  A Rectanglei* result is the path of the node   *)
(* whose bounds it points to, nullptr is NULL.                             *)
(*                                                                         *)
(* Widths, heights and coordinates are C++ ints.  insert compares before   *)
(* it subtracts, so for the non-negative sizes it is specified for every   *)
(* difference and every sum it forms lies between 0 and the root's size:   *)
(* no operation can overflow, and plain integers model them.               *)
(***************************************************************************)
EXTENDS Integers, Sequences, FiniteSets, TLC

VARIABLES
    spaceSize,   \* the Size2i handed to the constructor
    root,        \* the tree hanging off BinPackingSpace::root
    last,        \* the latest insert call: its size, result, recursion depth
                 \* and the nodes it visited
    prev,        \* root, returned and successes as the latest call found them
    returned,    \* the rectangles handed out by the successful calls so far
    successes,   \* the number of successful insert calls so far
    calls,       \* the number of insert calls so far
    log,         \* the calls in order, kept by the scenario specification
    conv         \* the two buffers given to the convolutions and what each returned

vars == <<spaceSize, root, last, prev, returned, successes, calls, log, conv>>

\* Largest width and height of a constructed space; requests go one beyond the space.
MaxDim == 2

\* Number of insert calls made on one space.
MaxInserts == 3

\* Number of insert calls made in the (10, 10) scenario.
MaxScenarioInserts == 3

\* Largest length of an input or kernel buffer given to the convolutions.
MaxLen == 3

\* nullptr: a path that names no node.
NULL == <<-1>>

Max(a, b) == IF a > b THEN a ELSE b

-----------------------------------------------------------------------------
(* The geometry value types the packer consumes.                           *)

Size2i(width, height) == [width |-> width, height |-> height]

Point2i(x, y) == [x |-> x, y |-> y]

Rectanglei(origin, size) == [origin |-> origin, size |-> size]

\* Node(const Rectanglei& bounds): childs are null, taken is false.
Node(bounds) == [bounds |-> bounds, taken |-> FALSE]

-----------------------------------------------------------------------------
(* Node::insert, piece by piece.                                           *)

Child(p, i) == Append(p, i)

\* childs[i] != nullptr
HasChild(t, p, i) == Child(p, i) \in DOMAIN t

\* bounds.size.width < size.width || bounds.size.height < size.height
TooSmall(bounds, size) ==
    bounds.size.width < size.width \/ bounds.size.height < size.height

\* The width alone is compared.
IsPerfectWidthOnly(bounds, size) == bounds.size.width = size.width

\* bounds.size == size
IsPerfect(bounds, size) ==
    bounds.size.width = size.width /\ bounds.size.height = size.height

\* Variant: equal leftovers split vertically.
SplitsVerticallyOnTies(bounds, size) ==
    bounds.size.width - size.width >= bounds.size.height - size.height

\* deltaWidth > deltaHeight: split into a left and a right child
SplitsVertically(bounds, size) ==
    bounds.size.width - size.width > bounds.size.height - size.height

\* childs[1] is given the origin of the node it splits.
SplitBoundsNoOffset(bounds, size) ==
    LET deltaWidth  == bounds.size.width - size.width
        deltaHeight == bounds.size.height - size.height
    IN  IF bounds.size.width - size.width > bounds.size.height - size.height
        THEN << Rectanglei(bounds.origin,
                           Size2i(bounds.size.width - deltaWidth, bounds.size.height)),
                Rectanglei(bounds.origin, Size2i(deltaWidth, bounds.size.height)) >>
        ELSE << Rectanglei(bounds.origin,
                           Size2i(bounds.size.width, bounds.size.height - deltaHeight)),
                Rectanglei(bounds.origin, Size2i(bounds.size.width, deltaHeight)) >>

\* childs[1] is given the whole size of the node it splits.
SplitBoundsFullSize(bounds, size) ==
    LET deltaWidth  == bounds.size.width - size.width
        deltaHeight == bounds.size.height - size.height
    IN  IF bounds.size.width - size.width > bounds.size.height - size.height
        THEN << Rectanglei(bounds.origin,
                           Size2i(bounds.size.width - deltaWidth, bounds.size.height)),
                Rectanglei(Point2i(bounds.origin.x + size.width, bounds.origin.y),
                           bounds.size) >>
        ELSE << Rectanglei(bounds.origin,
                           Size2i(bounds.size.width, bounds.size.height - deltaHeight)),
                Rectanglei(Point2i(bounds.origin.x, bounds.origin.y + size.height),
                           bounds.size) >>

\* The bounds of childs[0] and childs[1] made by a split.
SplitBounds(bounds, size) ==
    LET deltaWidth  == bounds.size.width - size.width
        deltaHeight == bounds.size.height - size.height
    IN  IF SplitsVertically(bounds, size)
        THEN << Rectanglei(bounds.origin,
                           Size2i(bounds.size.width - deltaWidth, bounds.size.height)),
                Rectanglei(Point2i(bounds.origin.x + size.width, bounds.origin.y),
                           Size2i(deltaWidth, bounds.size.height)) >>
        ELSE << Rectanglei(bounds.origin,
                           Size2i(bounds.size.width, bounds.size.height - deltaHeight)),
                Rectanglei(Point2i(bounds.origin.x, bounds.origin.y + size.height),
                           Size2i(bounds.size.width, deltaHeight)) >>

\* The node that is split is cut down to the bounds of its first child.
SplitShrinksParent(t, p, size) ==
    LET b == SplitBounds(t[p].bounds, size)
    IN  [q \in DOMAIN t \cup {Child(p, 0), Child(p, 1)} |->
            IF q = Child(p, 0) THEN Node(b[1])
            ELSE IF q = Child(p, 1) THEN Node(b[2])
            ELSE IF q = p THEN [t[q] EXCEPT !.bounds = b[1]]
            ELSE t[q]]

\* Only the first child is made.
SplitFirstChildOnly(t, p, size) ==
    LET b == SplitBounds(t[p].bounds, size)
    IN  [q \in DOMAIN t \cup {Child(p, 0)} |->
            IF q = Child(p, 0) THEN Node(b[1]) ELSE t[q]]

\* childs[0] = make_unique<Node>(...); childs[1] = make_unique<Node>(...)
Split(t, p, size) ==
    LET b == SplitBounds(t[p].bounds, size)
    IN  [q \in DOMAIN t \cup {Child(p, 0), Child(p, 1)} |->
            IF q = Child(p, 0) THEN Node(b[1])
            ELSE IF q = Child(p, 1) THEN Node(b[2])
            ELSE t[q]]

\* The second child is asked before the first.
SearchOrderSwapped == <<1, 0>>

\* An internal node asks childs[0] first and childs[1] only when that fails.
SearchOrder == <<0, 1>>

\* The taken flag is never looked at.
IsTakenIgnored(t, p) == FALSE

\* if (taken)
IsTaken(t, p) == t[p].taken

\* taken = true
Take(t, p) == [t EXCEPT ![p].taken = TRUE]

\* What one call of insert hands back: the tree after it, the node whose bounds
\* it returns (or NULL), the number of nested insert calls it made, and the
\* nodes insert was called on, in the order of the calls.
Outcome(t, result, depth, visited) ==
    [tree |-> t, result |-> result, depth |-> depth, visited |-> visited]

\* The result of the call on the first child is dropped: insert falls through
\* to its last line and returns nullptr.
AfterSplitFallsThrough(p, inner) ==
    Outcome(inner.tree, NULL, inner.depth + 1, <<p>> \o inner.visited)

\* The call made on the first child of a leaf that was just split.
AfterSplit(p, inner) ==
    Outcome(inner.tree, inner.result, inner.depth + 1, <<p>> \o inner.visited)

RECURSIVE NodeInsert(_, _, _)
NodeInsert(t, p, size) ==
    IF HasChild(t, p, 0)
    THEN LET first == NodeInsert(t, Child(p, SearchOrder[1]), size)
         IN  IF first.result # NULL
             THEN Outcome(first.tree, first.result, first.depth + 1,
                          <<p>> \o first.visited)
             ELSE LET second == NodeInsert(first.tree, Child(p, SearchOrder[2]), size)
                  IN  Outcome(second.tree, second.result,
                              1 + Max(first.depth, second.depth),
                              <<p>> \o first.visited \o second.visited)
    ELSE IF IsTaken(t, p)
         THEN Outcome(t, NULL, 1, <<p>>)
    ELSE IF TooSmall(t[p].bounds, size)
         THEN Outcome(t, NULL, 1, <<p>>)
    ELSE IF IsPerfect(t[p].bounds, size)
         THEN Outcome(Take(t, p), p, 1, <<p>>)
    ELSE AfterSplit(p, NodeInsert(Split(t, p, size), Child(p, 0), size))

-----------------------------------------------------------------------------
(* BinPackingSpace.                                                        *)

\* The conversion of a Size2i to the Rectanglei a Node is made of (declared in
\* rectangular.hpp): the rectangle of that size with its origin at (0, 0).
RectangleOfSize(size) == Rectanglei(Point2i(0, 0), size)

\* The root is made with width and height exchanged.
NewSpaceSwapped(size) ==
    [p \in {<<>>} |-> Node(RectangleOfSize(Size2i(size.height, size.width)))]

\* BinPackingSpace(const Size2i& size) : root(size)
NewSpace(size) == [p \in {<<>>} |-> Node(RectangleOfSize(size))]

\* Rectanglei* insert(const Size2i& size) { return root.insert(size); }
SpaceInsert(t, size) == NodeInsert(t, <<>>, size)

\* const Size2i& getSize() const { return root.bounds.size; }
getSize == root[<<>>].bounds.size

-----------------------------------------------------------------------------
(* The state machine: a space is constructed, then insert is called.       *)

Dims == 0 .. MaxDim

\* The requested sizes: every size up to one beyond the space in each dimension.
Requests == {Size2i(w, h) : w \in 0 .. spaceSize.width + 1,
                            h \in 0 .. spaceSize.height + 1}

\* Before the first call (calls = 0) there is no latest call.
NoCall == [size |-> Size2i(0, 0), result |-> NULL, depth |-> 0, visited |-> <<>>]

Construct(size) ==
    /\ spaceSize = size
    /\ root = NewSpace(size)
    /\ last = NoCall
    /\ prev = [root |-> NewSpace(size), returned |-> {}, successes |-> 0]
    /\ returned = {}
    /\ successes = 0
    /\ calls = 0
    /\ log = <<>>

\* No buffers: the convolutions are not part of this run.
NoBuffers == [input |-> <<>>, kernel |-> <<>>, convolve |-> {}, convolveInputSide |-> {}]

Init == \E w \in Dims, h \in Dims : Construct(Size2i(w, h)) /\ conv = NoBuffers

Call(size, limit) ==
    /\ calls < limit
    /\ LET out == SpaceInsert(root, size)
       IN  /\ root' = out.tree
           /\ last' = [size |-> size, result |-> out.result, depth |-> out.depth,
                       visited |-> out.visited]
           /\ returned' = IF out.result = NULL THEN returned
                          ELSE returned \cup {out.tree[out.result].bounds}
           /\ successes' = IF out.result = NULL THEN successes ELSE successes + 1
    /\ prev' = [root |-> root, returned |-> returned, successes |-> successes]
    /\ calls' = calls + 1
    /\ UNCHANGED <<spaceSize, conv>>

Insert(size) == Call(size, MaxInserts) /\ UNCHANGED log

Next == \E size \in Requests : Insert(size)

Spec == Init /\ [][Next]_vars

-----------------------------------------------------------------------------
(* The scenario: a space of size (10, 10) and a handful of sizes, with the *)
(* calls and what each returned written to the log in call order.          *)

ScenarioSizes ==
    {Size2i(10, 10), Size2i(1, 1), Size2i(4, 10), Size2i(6, 10), Size2i(0, 0)}

ScenarioInit == Construct(Size2i(10, 10)) /\ conv = NoBuffers

\* A log entry: the size asked and the rectangle returned, if any.
Entry(size, t, result) ==
    [size |-> size,
     placement |-> IF result = NULL THEN {} ELSE {t[result].bounds}]

ScenarioInsert(size) ==
    /\ Call(size, MaxScenarioInserts)
    /\ log' = Append(log, Entry(size, root', last'.result))

ScenarioNext == \E size \in ScenarioSizes : ScenarioInsert(size)

ScenarioSpec == ScenarioInit /\ [][ScenarioNext]_vars

-----------------------------------------------------------------------------
(* convolve and convolveInputSide (src/convolution.hpp).  Both build their *)
(* result in a vector<float>, so every product and every sum is rounded to *)
(* a float.  The buffers hold integers and a float is modelled by the      *)
(* integer it stands for: an integer is a float iff it has at most         *)
(* FloatDigits significant bits, and ToFloat rounds to the nearest such    *)
(* integer, ties to the even significand.                                  *)

\* Significant bits of a float (vector<float> output).
FloatDigits == 24

Abs(x) == IF x < 0 THEN -x ELSE x

\* The distance between neighbouring floats at magnitude m.
RECURSIVE Ulp(_)
Ulp(m) == IF m < 2 ^ FloatDigits THEN 1 ELSE 2 * Ulp(m \div 2)

ToFloat(x) ==
    LET m    == Abs(x)
        u    == Ulp(m)
        q    == m \div u
        r    == m % u
        near == IF 2 * r < u THEN q * u
                ELSE IF 2 * r > u THEN (q + 1) * u
                ELSE IF q % 2 = 0 THEN q * u
                ELSE (q + 1) * u
    IN  IF x < 0 THEN -near ELSE near

\* a * b and a + b on floats
FloatMul(a, b) == ToFloat(a * b)

FloatAdd(a, b) == ToFloat(a + b)

\* vector<float> output(size): size zeros, element i at index i + 1
ZeroBuffer(size) == [j \in 1 .. size |-> 0]

\* Input element 0 is skipped as well.
InRangeSkipsFirst(i, h, inputSize) == ~(i - h <= 0) /\ ~(i - h >= inputSize)

\* Neither continue of convolve is taken.
InRange(i, h, inputSize) == ~(i - h < 0) /\ ~(i - h >= inputSize)

\* The body of convolve's inner loop at (i, h).
ConvolveStep(output, input, kernel, i, h) ==
    IF InRange(i, h, Len(input))
    THEN [output EXCEPT ![i + 1] = FloatAdd(@, FloatMul(kernel[h + 1], input[i - h + 1]))]
    ELSE output

\* convolve's loops from step n on: i runs over the output, h over the kernel.
RECURSIVE ConvolveLoop(_, _, _, _)
ConvolveLoop(output, input, kernel, n) ==
    IF n >= Len(output) * Len(kernel)
    THEN output
    ELSE ConvolveLoop(ConvolveStep(output, input, kernel,
                                   n \div Len(kernel), n % Len(kernel)),
                      input, kernel, n + 1)

convolve(input, kernel) ==
    ConvolveLoop(ZeroBuffer(Len(input) + Len(kernel) - 1), input, kernel, 0)

\* The body of convolveInputSide's inner loop at (i, h).
InputSideStep(output, input, kernel, i, h) ==
    [output EXCEPT ![i + h + 1] = FloatAdd(@, FloatMul(kernel[h + 1], input[i + 1]))]

\* convolveInputSide's loops from step n on: i runs over the input, h over the kernel.
RECURSIVE InputSideLoop(_, _, _, _)
InputSideLoop(output, input, kernel, n) ==
    IF n >= Len(input) * Len(kernel)
    THEN output
    ELSE InputSideLoop(InputSideStep(output, input, kernel,
                                     n \div Len(kernel), n % Len(kernel)),
                       input, kernel, n + 1)

convolveInputSide(input, kernel) ==
    InputSideLoop(ZeroBuffer(Len(input) + Len(kernel) - 1), input, kernel, 0)

\* The values the input holds: small ones, and one at which floats start to round.
InputValues == {-1, 1, 2 ^ FloatDigits}

\* The values the kernel holds.
KernelValues == {-1, 1, 2}

\* The non-empty buffers of at most MaxLen of the given values.
Buffers(values) == UNION {[1 .. n -> values] : n \in 1 .. MaxLen}

ConvInit ==
    /\ Construct(Size2i(0, 0))
    /\ \E input \in Buffers(InputValues), kernel \in Buffers(KernelValues) :
          conv = [input |-> input, kernel |-> kernel,
                  convolve |-> {}, convolveInputSide |-> {}]

packer == <<spaceSize, root, last, prev, returned, successes, calls, log>>

RunConvolve ==
    /\ conv.convolve = {}
    /\ conv' = [conv EXCEPT !.convolve = {convolve(conv.input, conv.kernel)}]
    /\ UNCHANGED packer

RunConvolveInputSide ==
    /\ conv.convolveInputSide = {}
    /\ conv' = [conv EXCEPT
                  !.convolveInputSide = {convolveInputSide(conv.input, conv.kernel)}]
    /\ UNCHANGED packer

ConvNext == RunConvolve \/ RunConvolveInputSide

ConvSpec == ConvInit /\ [][ConvNext]_vars

-----------------------------------------------------------------------------
(* Vocabulary of the properties.                                           *)

Min(a, b) == IF a < b THEN a ELSE b

IsLeaf(t, p) == ~HasChild(t, p, 0) /\ ~HasChild(t, p, 1)

TakenNodes(t) == {p \in DOMAIN t : t[p].taken}

FreeLeaves(t) == {p \in DOMAIN t : IsLeaf(t, p) /\ ~t[p].taken}

\* The nodes the latest call allocated.
Created == DOMAIN root \ DOMAIN prev.root

Area(size) == size.width * size.height

\* Two rectangles share a point: a rectangle covers the unit cells from its
\* origin up to, not including, origin + size, so an empty one shares none.
Overlap(a, b) ==
    /\ Max(a.origin.x, b.origin.x)
         < Min(a.origin.x + a.size.width, b.origin.x + b.size.width)
    /\ Max(a.origin.y, b.origin.y)
         < Min(a.origin.y + a.size.height, b.origin.y + b.size.height)

\* Rectangle a lies inside the surface of the given size at origin (0, 0).
Inside(a, size) ==
    /\ 0 <= a.origin.x /\ a.origin.x + a.size.width <= size.width
    /\ 0 <= a.origin.y /\ a.origin.y + a.size.height <= size.height

Succeeded == calls > 0 /\ last.result # NULL

Failed == calls > 0 /\ last.result = NULL

\* The rectangle the latest successful call returned.
Placement == root[last.result].bounds

Oversize(size) == size.width > spaceSize.width \/ size.height > spaceSize.height

-----------------------------------------------------------------------------
(* C1: no overlap / monotonic occupancy.  The rectangle returned by a      *)
(* successful insert shares no point with any rectangle returned by an     *)
(* earlier successful insert on the same space, so the rectangles returned *)
(* by the successful calls are pairwise disjoint.                          *)
C1_NoOverlap ==
    /\ Succeeded => \A r \in prev.returned : ~Overlap(Placement, r)
    /\ \A a, b \in returned : a # b => ~Overlap(a, b)

\* Two rectangles of positive area have been placed, the second by the latest call.
C1_Witness ==
    /\ Succeeded
    /\ Area(Placement.size) > 0
    /\ \E r \in prev.returned : Area(r.size) > 0

(* C2: containment.  Every rectangle returned by insert lies inside the    *)
(* rectangle with origin (0, 0) and the size the space was constructed     *)
(* with.                                                                   *)
C2_Containment == \A r \in returned : Inside(r, spaceSize)

\* A placement that ends at the far corner of the surface, after an earlier one.
C2_Witness ==
    /\ Succeeded
    /\ successes >= 2
    /\ Area(Placement.size) > 0
    /\ Placement.origin.x + Placement.size.width = spaceSize.width
    /\ Placement.origin.y + Placement.size.height = spaceSize.height

(* C3: a successful insert returns the bounds of a leaf whose size equals  *)
(* the requested size, and the call sets taken on that leaf and on no      *)
(* other node; a failed call sets taken on no node.                        *)
C3_ExactLeafTaken ==
    /\ Succeeded =>
          /\ last.result \in DOMAIN root
          /\ IsLeaf(root, last.result)
          /\ Placement.size = last.size
          /\ last.result \notin TakenNodes(prev.root)
          /\ TakenNodes(root) = TakenNodes(prev.root) \cup {last.result}
    /\ Failed => TakenNodes(root) = TakenNodes(prev.root)

\* A call that split before it took its leaf, with a leaf taken earlier.
C3_Witness ==
    /\ Succeeded
    /\ Created # {}
    /\ TakenNodes(prev.root) # {}

(* C4, as claimed: one call of insert allocates at most two new nodes.     *)
C4_AtMostTwoNodes == calls > 0 => Cardinality(Created) <= 2

\* The leaf of the tree before the call could hold the size, but not exactly.
SplitLeaf(p) ==
    /\ p \in FreeLeaves(prev.root)
    /\ ~TooSmall(prev.root[p].bounds, last.size)
    /\ ~IsPerfect(prev.root[p].bounds, last.size)

(* C4, amended: one call of insert allocates at most four new nodes: none, *)
(* or the two childs of one free leaf that fits the size but not exactly,  *)
(* or those two and the two childs of that leaf's new child 0.             *)
C4_AtMostTwoSplits ==
    calls > 0 =>
       \/ Created = {}
       \/ \E p \in DOMAIN prev.root :
             /\ SplitLeaf(p)
             /\ \/ Created = {Child(p, 0), Child(p, 1)}
                \/ Created = {Child(p, 0), Child(p, 1),
                              Child(Child(p, 0), 0), Child(Child(p, 0), 1)}

\* A call that split twice, on a tree that had been split before.
C4_Witness ==
    /\ calls > 0
    /\ Cardinality(Created) = 4
    /\ Cardinality(DOMAIN prev.root) > 1

\* The free leaves of a tree that no free leaf exceeds in area.
LargestFreeLeaves(t) ==
    {p \in FreeLeaves(t) :
        \A q \in FreeLeaves(t) : Area(t[q].bounds.size) <= Area(t[p].bounds.size)}

\* The latest call asked for exactly the size of leaf p of the tree it found.
AskedSizeOf(p) == calls > 0 /\ IsPerfect(prev.root[p].bounds, last.size)

(* C5, as claimed: inserting the size of the current largest free leaf     *)
(* returns a rectangle equal to that leaf's bounds and creates no node.    *)
C5_LargestLeafReturned ==
    \A p \in LargestFreeLeaves(prev.root) :
        AskedSizeOf(p) =>
            /\ Succeeded
            /\ Placement = prev.root[p].bounds
            /\ Created = {}

\* Leaf p is reached before leaf q by a depth-first search that visits
\* childs[0] before childs[1].
Before(p, q) ==
    \E i \in 1 .. Min(Len(p), Len(q)) :
        /\ \A j \in 1 .. i - 1 : p[j] = q[j]
        /\ p[i] = 0
        /\ q[i] = 1

\* The free leaves of the tree the latest call found that have the asked size.
FreeOfAskedSize == {q \in FreeLeaves(prev.root) : IsPerfect(prev.root[q].bounds, last.size)}

(* C5, amended: inserting a size of positive area equal to the size of a   *)
(* largest free leaf succeeds without creating a node, and returns the     *)
(* bounds of the first free leaf of that size in search order: the largest *)
(* free leaf itself when no other free leaf has its size.                  *)
C5_ExactFitNoSplit ==
    \A p \in LargestFreeLeaves(prev.root) :
        (AskedSizeOf(p) /\ Area(last.size) > 0) =>
            /\ Succeeded
            /\ Created = {}
            /\ last.result \in FreeOfAskedSize
            /\ last.result \in LargestFreeLeaves(prev.root)
            /\ \A q \in FreeOfAskedSize : ~Before(q, last.result)
            /\ FreeOfAskedSize = {p} => Placement = prev.root[p].bounds

\* The size of a largest free leaf was asked while two free leaves had it.
C5_Witness ==
    /\ \E p \in LargestFreeLeaves(prev.root) : AskedSizeOf(p) /\ Area(last.size) > 0
    /\ Cardinality(FreeOfAskedSize) >= 2
    /\ Cardinality(DOMAIN prev.root) > 1

(* C6: failure on oversize.  After any sequence of inserts, an insert of a *)
(* size wider or higher than the space returns nullptr.                    *)
C6_OversizeFails == (calls > 0 /\ Oversize(last.size)) => last.result = NULL

\* An oversize request made after a successful insert that left room.
C6_Witness ==
    /\ calls > 0
    /\ Oversize(last.size)
    /\ successes >= 1
    /\ FreeLeaves(root) # {}

(* C7: a failed insert leaves the whole tree unchanged: no node is         *)
(* created, no taken flag and no bounds change, so later results depend    *)
(* only on the successful insertions made before them.                     *)
C7_FailureChangesNothing == Failed => root = prev.root

\* A request that fits the space and fails, on a tree with free leaves left.
C7_Witness ==
    /\ Failed
    /\ ~Oversize(last.size)
    /\ Cardinality(DOMAIN root) > 1
    /\ FreeLeaves(root) # {}

-----------------------------------------------------------------------------
\* The number of levels below the root.
Height(t) == CHOOSE h \in 0 .. Cardinality(DOMAIN t) :
                /\ \E p \in DOMAIN t : Len(p) = h
                /\ \A p \in DOMAIN t : Len(p) <= h

(* C9, as claimed: the recursion depth of an insert call is bounded by the *)
(* number of successful insertions made before it.                         *)
C9_DepthAtMostSuccesses == calls > 0 => last.depth <= prev.successes

(* C9, amended: every insert call terminates, and its recursion depth, the *)
(* number of nested insert calls, is at most 2 n + 3 where n is the number *)
(* of successful insertions made before it: a call goes at most one level  *)
(* below the tree it leaves behind, and each successful insertion, and     *)
(* only a successful one, adds at most two levels to the tree.             *)
C9_DepthBound ==
    /\ Height(root) <= 2 * successes
    /\ calls > 0 =>
          /\ 1 <= last.depth
          /\ last.depth <= Height(root) + 1
          /\ last.depth <= 2 * prev.successes + 3

\* A call that went as deep as the bound allows, after an earlier success.
C9_Witness ==
    /\ calls > 0
    /\ prev.successes >= 1
    /\ last.depth = 2 * prev.successes + 3

-----------------------------------------------------------------------------
(* The properties of the (10, 10) scenario, checked under ScenarioSpec.     *)

Placed(origin, size) == {Rectanglei(origin, size)}

\* Call i asked for the given size.
Asked(i, size) == Len(log) >= i /\ log[i].size = size

\* The taken leaves of the tree cover every unit cell of the surface.
Covered(t) ==
    \A x \in 0 .. spaceSize.width - 1, y \in 0 .. spaceSize.height - 1 :
        \E p \in TakenNodes(t) :
            Overlap(t[p].bounds, Rectanglei(Point2i(x, y), Size2i(1, 1)))

\* On a fresh (10, 10) space insert (10, 10) returns (0, 0) (10, 10), and a
\* following insert (1, 1) fails.
ScenarioWhole ==
    /\ Asked(1, Size2i(10, 10)) =>
          log[1].placement = Placed(Point2i(0, 0), Size2i(10, 10))
    /\ (Asked(1, Size2i(10, 10)) /\ Asked(2, Size2i(1, 1))) => log[2].placement = {}

\* On a fresh (10, 10) space insert (4, 10) returns origin (0, 0), a following
\* insert (6, 10) returns origin (4, 0), and a following insert (1, 1) fails.
ScenarioHalves ==
    /\ Asked(1, Size2i(4, 10)) =>
          log[1].placement = Placed(Point2i(0, 0), Size2i(4, 10))
    /\ (Asked(1, Size2i(4, 10)) /\ Asked(2, Size2i(6, 10))) =>
          log[2].placement = Placed(Point2i(4, 0), Size2i(6, 10))
    /\ (Asked(1, Size2i(4, 10)) /\ Asked(2, Size2i(6, 10)) /\ Asked(3, Size2i(1, 1))) =>
          log[3].placement = {}

(* C10, as claimed: the two (10, 10) scenarios, and once the taken leaves  *)
(* cover the whole surface every further insert fails.                     *)
C10_FullSurfaceFailsAll ==
    /\ ScenarioWhole
    /\ ScenarioHalves
    /\ (calls > 0 /\ Covered(prev.root)) => last.result = NULL

(* C10, amended: the two (10, 10) scenarios, and once the taken leaves     *)
(* cover the whole surface every further insert of a size with positive    *)
(* width and height fails.                                                 *)
C10_Scenario ==
    /\ ScenarioWhole
    /\ ScenarioHalves
    /\ (calls > 0 /\ Covered(prev.root) /\ Area(last.size) > 0) => last.result = NULL

\* The second scenario ran to its end: two placements fill the surface and
\* insert (1, 1) has failed.
C10_Witness ==
    /\ Asked(1, Size2i(4, 10))
    /\ Asked(2, Size2i(6, 10))
    /\ Asked(3, Size2i(1, 1))
    /\ Covered(prev.root)
    /\ Failed

-----------------------------------------------------------------------------
(* C11: getSize() returns the size the space was constructed with in every *)
(* reachable state: no sequence of successful or failed insert calls       *)
(* changes the root's bounds.                                              *)
C11_GetSizeFixed == getSize = spaceSize

\* The root has been split by a successful insert, and an insert has failed.
C11_Witness ==
    /\ Failed
    /\ successes >= 1
    /\ HasChild(root, <<>>, 0)
    /\ Area(spaceSize) > 0

-----------------------------------------------------------------------------
(* The properties of the convolutions, checked under ConvSpec.              *)

BothRan == conv.convolve # {} /\ conv.convolveInputSide # {}

OutputSide == CHOOSE b \in conv.convolve : TRUE

InputSide == CHOOSE b \in conv.convolveInputSide : TRUE

OutputSize == Len(conv.input) + Len(conv.kernel) - 1

\* The kernel indices h whose product kernel[h] * input[i - h] belongs to element i.
Taps(i) == {h \in 0 .. Len(conv.kernel) - 1 : 0 <= i - h /\ i - h < Len(conv.input)}

Product(i, h) == conv.kernel[h + 1] * conv.input[i - h + 1]

\* The sum of the values of a function with a finite domain.
RECURSIVE SumOf(_)
SumOf(f) ==
    IF DOMAIN f = {} THEN 0
    ELSE LET h == CHOOSE x \in DOMAIN f : TRUE
         IN  f[h] + SumOf([x \in DOMAIN f \ {h} |-> f[x]])

\* Element i as the claim gives it: the sum of the products, in the integers.
ExactSum(i) == SumOf([h \in Taps(i) |-> Product(i, h)])

\* No sum of some of element i's products has more than FloatDigits bits, so
\* no addition made for element i rounds, in whatever order they are made.
NothingRounds(i) ==
    SumOf([h \in Taps(i) |-> Abs(Product(i, h))]) <= 2 ^ FloatDigits

(* C12, as claimed: for non-empty input and kernel, convolve and           *)
(* convolveInputSide return the same buffer, of length n + k - 1, whose    *)
(* element i is the sum of kernel[h] * input[i - h] over the h in range.   *)
C12_SameExactBuffer ==
    BothRan =>
        /\ OutputSide = InputSide
        /\ Len(OutputSide) = OutputSize
        /\ \A i \in 0 .. OutputSize - 1 : OutputSide[i + 1] = ExactSum(i)

(* C12, amended: for non-empty input and kernel, convolve and              *)
(* convolveInputSide return buffers of the same length n + k - 1.  Their   *)
(* elements i are equal to each other and to the sum of the products       *)
(* kernel[h] * input[i - h] whenever no float addition rounds, and equal   *)
(* to each other whenever at most two products belong to element i; with   *)
(* three or more products the two functions add them in opposite orders    *)
(* and float rounding can make the elements differ.                        *)
C12_SameBufferUpToRounding ==
    BothRan =>
        /\ Len(OutputSide) = OutputSize
        /\ Len(InputSide) = OutputSize
        /\ \A i \in 0 .. OutputSize - 1 :
              /\ NothingRounds(i) =>
                    /\ OutputSide[i + 1] = ExactSum(i)
                    /\ InputSide[i + 1] = ExactSum(i)
              /\ Cardinality(Taps(i)) <= 2 => OutputSide[i + 1] = InputSide[i + 1]

\* Both functions ran on buffers of three values whose middle element sums
\* three products without rounding, and not to zero.
C12_Witness ==
    /\ BothRan
    /\ Len(conv.input) = 3
    /\ Len(conv.kernel) = 3
    /\ Cardinality(Taps(2)) = 3
    /\ NothingRounds(2)
    /\ OutputSide[3] # 0

-----------------------------------------------------------------------------
InternalNodes(t) == {p \in DOMAIN t : HasChild(t, p, 0) \/ HasChild(t, p, 1)}

\* Every unit cell of rectangle a lies in rectangle b or in rectangle c.
CoveredBy(a, b, c) ==
    \A x \in a.origin.x .. a.origin.x + a.size.width - 1,
       y \in a.origin.y .. a.origin.y + a.size.height - 1 :
        \/ Overlap(Rectanglei(Point2i(x, y), Size2i(1, 1)), b)
        \/ Overlap(Rectanglei(Point2i(x, y), Size2i(1, 1)), c)

\* Rectangle a lies inside rectangle b.
Within(a, b) ==
    /\ b.origin.x <= a.origin.x
    /\ a.origin.x + a.size.width <= b.origin.x + b.size.width
    /\ b.origin.y <= a.origin.y
    /\ a.origin.y + a.size.height <= b.origin.y + b.size.height

\* b0 and b1 are b cut in two side by side: b0 left, b1 right of it.
TilesSideBySide(b, b0, b1) ==
    /\ b0.origin = b.origin
    /\ b0.size.height = b.size.height
    /\ b1.size.height = b.size.height
    /\ b0.size.width + b1.size.width = b.size.width
    /\ b1.origin = Point2i(b.origin.x + b0.size.width, b.origin.y)

\* b0 and b1 are b cut in two one above the other: b0 first, b1 beyond it.
TilesStacked(b, b0, b1) ==
    /\ b0.origin = b.origin
    /\ b0.size.width = b.size.width
    /\ b1.size.width = b.size.width
    /\ b0.size.height + b1.size.height = b.size.height
    /\ b1.origin = Point2i(b.origin.x, b.origin.y + b0.size.height)

(* C13: partition invariant.  In every reachable state the bounds of the   *)
(* two children of an internal node tile the node's bounds exactly: they   *)
(* are disjoint, both lie inside the parent, together they cover it, one   *)
(* of width and height equals the parent's and the other sums to it, and   *)
(* child 1's origin is the parent's shifted by child 0's extent.           *)
C13_ChildrenTileParent ==
    \A p \in InternalNodes(root) :
        /\ HasChild(root, p, 0)
        /\ HasChild(root, p, 1)
        /\ LET b  == root[p].bounds
               b0 == root[Child(p, 0)].bounds
               b1 == root[Child(p, 1)].bounds
           IN  /\ ~Overlap(b0, b1)
               /\ Within(b0, b)
               /\ Within(b1, b)
               /\ CoveredBy(b, b0, b1)
               /\ b0.size.width >= 0 /\ b0.size.height >= 0
               /\ b1.size.width >= 0 /\ b1.size.height >= 0
               /\ TilesSideBySide(b, b0, b1) \/ TilesStacked(b, b0, b1)

\* A tree with a node cut side by side and a node cut one above the other,
\* each into two children of positive area.
C13_Witness ==
    \E p, q \in InternalNodes(root) :
        /\ TilesSideBySide(root[p].bounds, root[Child(p, 0)].bounds, root[Child(p, 1)].bounds)
        /\ ~TilesStacked(root[p].bounds, root[Child(p, 0)].bounds, root[Child(p, 1)].bounds)
        /\ TilesStacked(root[q].bounds, root[Child(q, 0)].bounds, root[Child(q, 1)].bounds)
        /\ ~TilesSideBySide(root[q].bounds, root[Child(q, 0)].bounds, root[Child(q, 1)].bounds)
        /\ Area(root[Child(p, 0)].bounds.size) > 0
        /\ Area(root[Child(p, 1)].bounds.size) > 0
        /\ Area(root[Child(q, 0)].bounds.size) > 0
        /\ Area(root[Child(q, 1)].bounds.size) > 0

-----------------------------------------------------------------------------
\* The leaf of the tree before the latest call under which the placement lies.
ChosenLeaf ==
    CHOOSE q \in DOMAIN prev.root :
        /\ IsLeaf(prev.root, q)
        /\ Len(q) <= Len(last.result)
        /\ SubSeq(last.result, 1, Len(q)) = q

\* The nodes the latest call split.
SplitNodes == {q \in DOMAIN root : Child(q, 0) \in Created}

LeftoverWidth(q)  == root[q].bounds.size.width - last.size.width
LeftoverHeight(q) == root[q].bounds.size.height - last.size.height

(* C14: split rule.  A free leaf that fits the requested size but not      *)
(* exactly is split when the call reaches it.  Every node the call splits  *)
(* is cut vertically if its leftover width exceeds its leftover height:    *)
(* child 0 = (origin, size.width x bounds.height), child 1 = (origin       *)
(* shifted by size.width in x, leftover width x bounds.height); otherwise, *)
(* equal leftovers included, it is cut horizontally: child 0 = (origin,    *)
(* bounds.width x size.height), child 1 = (origin shifted by size.height   *)
(* in y, bounds.width x leftover height).                                  *)
C14_SplitRule ==
    /\ Succeeded /\ ~IsPerfect(prev.root[ChosenLeaf].bounds, last.size)
           => ChosenLeaf \in SplitNodes
    /\ \A q \in SplitNodes :
           LET b  == root[q].bounds
               s  == last.size
               b0 == root[Child(q, 0)].bounds
               b1 == root[Child(q, 1)].bounds
           IN  IF LeftoverWidth(q) > LeftoverHeight(q)
               THEN /\ b0 = Rectanglei(b.origin, Size2i(s.width, b.size.height))
                    /\ b1 = Rectanglei(Point2i(b.origin.x + s.width, b.origin.y),
                                       Size2i(LeftoverWidth(q), b.size.height))
               ELSE /\ b0 = Rectanglei(b.origin, Size2i(b.size.width, s.height))
                    /\ b1 = Rectanglei(Point2i(b.origin.x, b.origin.y + s.height),
                                       Size2i(b.size.width, LeftoverHeight(q)))

\* The latest call split a leaf whose two leftovers were equal and positive.
C14_Witness ==
    /\ Succeeded
    /\ \E q \in SplitNodes :
           /\ q \in DOMAIN prev.root
           /\ LeftoverWidth(q) = LeftoverHeight(q)
           /\ LeftoverWidth(q) > 0

-----------------------------------------------------------------------------
\* Node p is node q or an ancestor of it.
IsPrefix(p, q) == Len(p) <= Len(q) /\ SubSeq(q, 1, Len(p)) = p

\* p comes before q when the tree is walked depth-first, a node before its
\* children and child 0 before child 1.
Preorder(p, q) == (p # q /\ IsPrefix(p, q)) \/ Before(p, q)

\* The nodes the latest call visited.
Visited == {last.visited[i] : i \in 1 .. Len(last.visited)}

\* The free leaves of the tree the latest call found that are at least as wide
\* and as high as the requested size.
Fitting == {q \in FreeLeaves(prev.root) : ~TooSmall(prev.root[q].bounds, last.size)}

(* C15: search order.  A call of insert visits the nodes depth-first from  *)
(* the root, child 0 before child 1, and stops at the first leaf that is   *)
(* not taken and is at least as wide and as high as the requested size:    *)
(* every leaf before it is visited, no leaf after it is, and the           *)
(* placement is at that leaf's origin.  Child 1 of a node is visited only  *)
(* after child 0 was visited and gave no placement.                        *)
C15_SearchOrder ==
    calls > 0 =>
        /\ last.visited[1] = <<>>
        /\ \A i, j \in 1 .. Len(last.visited) :
               i < j => Preorder(last.visited[i], last.visited[j])
        /\ Failed =>
               \A q \in DOMAIN prev.root : q \in Visited
        /\ Succeeded =>
               /\ ChosenLeaf \in Fitting
               /\ \A q \in Fitting : ~Before(q, ChosenLeaf)
               /\ Placement.origin = prev.root[ChosenLeaf].bounds.origin
               /\ \A q \in DOMAIN prev.root :
                      IsLeaf(prev.root, q) =>
                          (q \in Visited <=> ~Before(ChosenLeaf, q))
        /\ \A q \in DOMAIN root :
               Child(q, 1) \in Visited =>
                   /\ \E i, j \in 1 .. Len(last.visited) :
                          /\ i < j
                          /\ last.visited[i] = Child(q, 0)
                          /\ last.visited[j] = Child(q, 1)
                   /\ ~IsPrefix(Child(q, 0), last.result)
                   /\ \A f \in Fitting : ~IsPrefix(Child(q, 0), f)

\* The latest call passed over a child 0 that had no room, went on to child 1
\* and placed the rectangle in the first of two or more leaves that fit.
C15_Witness ==
    /\ Succeeded
    /\ Cardinality(Fitting) >= 2
    /\ \E q \in DOMAIN prev.root :
           /\ Child(q, 1) \in Visited
           /\ IsPrefix(Child(q, 1), last.result)
           /\ \E f \in Fitting : Before(ChosenLeaf, f)

-----------------------------------------------------------------------------
\* The sum of the areas of the free leaves of tree t.
RECURSIVE AreaOf(_, _)
AreaOf(t, leaves) ==
    IF leaves = {} THEN 0
    ELSE LET q == CHOOSE x \in leaves : TRUE
         IN  Area(t[q].bounds.size) + AreaOf(t, leaves \ {q})

(* C16: insert fails exactly when no space is left for the size.  A call   *)
(* returns no placement if and only if every leaf of the tree it found is  *)
(* taken or smaller than the requested size in width or in height; when    *)
(* some leaf that is not taken fits in both dimensions, it succeeds.       *)
C16_FailsIffNoRoom ==
    calls > 0 =>
        /\ last.result = NULL <=>
               \A q \in DOMAIN prev.root :
                   IsLeaf(prev.root, q) =>
                       \/ prev.root[q].taken
                       \/ prev.root[q].bounds.size.width < last.size.width
                       \/ prev.root[q].bounds.size.height < last.size.height
        /\ Fitting # {} => Succeeded

\* A call failed although the surface is large enough for the size and the
\* free leaves together have at least the requested area.
C16_Witness ==
    /\ Failed
    /\ ~Oversize(last.size)
    /\ Area(last.size) > 0
    /\ AreaOf(prev.root, FreeLeaves(prev.root)) >= Area(last.size)

-----------------------------------------------------------------------------
\* Every node of tree t has both children or none.
BothOrNeither(t) == \A p \in DOMAIN t : HasChild(t, p, 0) <=> HasChild(t, p, 1)

\* The tree as it was when the first split of the latest call had been made:
\* the tree the call found plus the two children of the leaf it chose.
AfterFirstSplit ==
    [q \in DOMAIN prev.root \cup {Child(ChosenLeaf, 0), Child(ChosenLeaf, 1)} |-> root[q]]

(* C17: structural invariant.  In every reachable state every node has     *)
(* both children or none, never exactly one; the same holds of the tree    *)
(* between the first and the second split of one insert call.              *)
C17_BothChildrenOrNone ==
    /\ BothOrNeither(root)
    /\ BothOrNeither(prev.root)
    /\ (Succeeded /\ ChosenLeaf \in SplitNodes) =>
           /\ DOMAIN AfterFirstSplit \subseteq DOMAIN root
           /\ BothOrNeither(AfterFirstSplit)

\* The latest call split twice, in a tree that already had internal nodes.
C17_Witness ==
    /\ Succeeded
    /\ Cardinality(SplitNodes) = 2
    /\ InternalNodes(prev.root) # {}
    /\ AfterFirstSplit # root

-----------------------------------------------------------------------------
(* C18: taken flag.  In every reachable state a taken node is a leaf; a    *)
(* node that was taken before an insert call is still taken after it, and  *)
(* the call does not split it.                                             *)
C18_TakenIsLeafForGood ==
    /\ \A p \in TakenNodes(root) : IsLeaf(root, p)
    /\ \A p \in TakenNodes(prev.root) :
           /\ p \in DOMAIN root
           /\ root[p].taken
           /\ p \notin SplitNodes
           /\ IsLeaf(prev.root, p)

\* The latest call came upon a taken leaf wider and higher than the requested
\* size, left it alone and placed the rectangle elsewhere.
C18_Witness ==
    /\ Succeeded
    /\ \E p \in TakenNodes(prev.root) :
           /\ p \in Visited
           /\ prev.root[p].bounds.size.width > last.size.width
           /\ prev.root[p].bounds.size.height > last.size.height

-----------------------------------------------------------------------------
(* C19: the tree only grows.  Every node that existed before an insert     *)
(* call exists after it with the same bounds; a node that was internal is  *)
(* still internal and has the children it had, the call giving it no new   *)
(* ones; the only nodes that get children are leaves, each once.           *)
C19_TreeOnlyGrows ==
    /\ DOMAIN prev.root \subseteq DOMAIN root
    /\ \A p \in DOMAIN prev.root : root[p].bounds = prev.root[p].bounds
    /\ \A p \in DOMAIN prev.root :
           (Child(p, 0) \in DOMAIN prev.root \/ Child(p, 1) \in DOMAIN prev.root) =>
               /\ Child(p, 0) \in DOMAIN root
               /\ Child(p, 1) \in DOMAIN root
               /\ p \notin SplitNodes
    /\ \A p \in SplitNodes :
           /\ Child(p, 0) \notin DOMAIN prev.root
           /\ Child(p, 1) \notin DOMAIN prev.root
           /\ p \in DOMAIN prev.root \/ p \in Created
    /\ Cardinality(DOMAIN root) >= Cardinality(DOMAIN prev.root)

\* The latest call split a leaf of a tree that already had internal nodes and
\* taken leaves.
C19_Witness ==
    /\ Succeeded
    /\ SplitNodes # {}
    /\ InternalNodes(prev.root) # {}
    /\ TakenNodes(prev.root) # {}
    /\ Cardinality(DOMAIN root) > Cardinality(DOMAIN prev.root)

-----------------------------------------------------------------------------
\* The chosen leaf has the requested width, the requested height.
SameWidth  == prev.root[ChosenLeaf].bounds.size.width = last.size.width
SameHeight == prev.root[ChosenLeaf].bounds.size.height = last.size.height

(* C20: an insert call splits zero, one or two nodes and so creates 0, 2   *)
(* or 4 nodes: none when it fails or the chosen leaf has exactly the       *)
(* requested size, 2 when the chosen leaf has the requested size in        *)
(* exactly one dimension, 4 when it is larger in both.  After the splits   *)
(* the innermost child 0 has exactly the requested size, is a leaf and is  *)
(* the node the call took.                                                 *)
C20_ZeroTwoOrFourNodes ==
    calls > 0 =>
        /\ Cardinality(SplitNodes) \in {0, 1, 2}
        /\ Cardinality(Created) = 2 * Cardinality(SplitNodes)
        /\ Failed => Created = {}
        /\ Succeeded =>
               /\ (SameWidth /\ SameHeight) =>
                      /\ Created = {}
                      /\ last.result = ChosenLeaf
               /\ (SameWidth # SameHeight) =>
                      /\ Created = {Child(ChosenLeaf, 0), Child(ChosenLeaf, 1)}
                      /\ last.result = Child(ChosenLeaf, 0)
               /\ (~SameWidth /\ ~SameHeight) =>
                      /\ Created = {Child(ChosenLeaf, 0), Child(ChosenLeaf, 1),
                                    Child(Child(ChosenLeaf, 0), 0),
                                    Child(Child(ChosenLeaf, 0), 1)}
                      /\ Cardinality(Created) = 4
                      /\ last.result = Child(Child(ChosenLeaf, 0), 0)
               /\ Placement.size = last.size
               /\ IsLeaf(root, last.result)
               /\ root[last.result].taken
               /\ TakenNodes(root) \ TakenNodes(prev.root) \subseteq {last.result}

\* The latest call found its leaf below the root, larger than the requested
\* size in both dimensions, and made four nodes.
C20_Witness ==
    /\ Succeeded
    /\ ChosenLeaf # <<>>
    /\ ~SameWidth
    /\ ~SameHeight
    /\ Cardinality(Created) = 4
    /\ root[Child(Child(ChosenLeaf, 0), 0)].taken

=============================================================================
